---- MODULE Spec2Model ----
(***************************************************************************)
(* Model of the ns3penv data-exchange layer:                               *)
(*   - the container model of src/model/container.{h,cc} (Discrete, Box,   *)
(*     Tuple, Dict) with its conversion to and from the DataContainer wire *)
(*     message;                                                            *)
(*   - the protocol engine of src/model/ns3penv-gym-interface.cc (Init     *)
(*     handshake, per-step rendezvous, stop and simulation-end handling).  *)
(***************************************************************************)
EXTENDS Integers, Sequences, FiniteSets, TLC

(***************************************************************************)
(* Bounds of the model.                                                    *)
(***************************************************************************)
\* largest total size (containers, Box elements and shape entries) of the
\* containers under construction at one time
MaxSize == 4

\* scalar values used as Discrete value and Box element
Vals == {0, 1}

\* the maximum-plus-one given to the OpenGymDiscreteContainer constructor
DiscreteNs == {2}

\* the shape vectors given to the OpenGymBoxContainer constructor
Shapes == {<<>>, <<2>>}

(***************************************************************************)
(* Container model (container.h / container.cc).                           *)
(*                                                                         *)
(* A Ptr<OpenGymDataContainer> is a record with the fields of all four     *)
(* classes; the fields a class does not have keep their neutral value.     *)
(* kind = "Null" is the null Ptr.  m_dict is the std::map, kept as the     *)
(* sequence of its entries in key order.                                   *)
(***************************************************************************)

\* the key universe, in std::string order ("n" < "pos")
KeyOrder == <<"n", "pos">>

Keys == {KeyOrder[i] : i \in 1..Len(KeyOrder)}

KeyRank(k) == CHOOSE i \in 1..Len(KeyOrder) : KeyOrder[i] = k

\* std::less<std::string> on the key universe
KeyLess(a, b) == KeyRank(a) < KeyRank(b)

\* the element types for which OpenGymBoxContainer is instantiated
BoxTypes == {"int32_t", "uint32_t", "float", "double"}

NullPtr ==
    [kind |-> "Null", T |-> "", m_n |-> 0, m_value |-> 0, m_shape |-> <<>>,
     m_dtype |-> "", m_data |-> <<>>, m_tuple |-> <<>>, m_dict |-> <<>>]

\* OpenGymDiscreteContainer(n); m_value is not initialised by the
\* constructors, garbage stands for the indeterminate value it holds
OpenGymDiscreteContainer(n, garbage) ==
    [NullPtr EXCEPT !.kind = "Discrete", !.m_n = n, !.m_value = garbage]

\* OpenGymDiscreteContainer::SetValue
SetValue(c, value) == [c EXCEPT !.m_value = value]

\* variant of SetDtype that tags float as DOUBLE and any other kind as INT
SetDtype_Widened(name) ==
    IF name \in {"uint8_t", "uint16_t", "uint32_t", "uint64_t"} THEN "UINT"
    ELSE IF name \in {"float", "double"} THEN "DOUBLE"
    ELSE "INT"

\* OpenGymBoxContainer<T>::SetDtype; "ABORT" is NS_ABORT_MSG
SetDtype(name) ==
    IF name \in {"int8_t", "int16_t", "int32_t", "int64_t"} THEN "INT"
    ELSE IF name \in {"uint8_t", "uint16_t", "uint32_t", "uint64_t"} THEN "UINT"
    ELSE IF name = "float" THEN "FLOAT"
    ELSE IF name = "double" THEN "DOUBLE"
    ELSE "ABORT"

\* OpenGymBoxContainer<T>(shape); the default constructor is shape = <<>>
OpenGymBoxContainer(name, shape) ==
    [NullPtr EXCEPT !.kind = "Box", !.T = name, !.m_shape = shape,
                    !.m_dtype = SetDtype(name)]

\* OpenGymBoxContainer<T>::AddValue
AddValue(c, value) == [c EXCEPT !.m_data = Append(@, value)]

\* OpenGymBoxContainer<T>::SetData
SetData(c, data) == [c EXCEPT !.m_data = data]

\* OpenGymBoxContainer<T>::GetShape
GetShape(c) == c.m_shape

\* OpenGymBoxContainer<T>::GetData
GetData(c) == c.m_data

\* variant of GetValue that returns the last element for an index past
\* the end
GetValue_Clamped(c, idx) ==
    IF idx < Len(c.m_data) THEN c.m_data[idx + 1]
    ELSE IF c.m_data # <<>> THEN c.m_data[Len(c.m_data)] ELSE 0

\* OpenGymBoxContainer<T>::GetValue; idx counts from 0
GetValue(c, idx) == IF idx < Len(c.m_data) THEN c.m_data[idx + 1] ELSE 0

OpenGymTupleContainer == [NullPtr EXCEPT !.kind = "Tuple"]

\* OpenGymTupleContainer::Get; idx counts from 0
TupleGet(c, idx) == IF idx < Len(c.m_tuple) THEN c.m_tuple[idx + 1] ELSE NullPtr

\* OpenGymTupleContainer::Add
TupleAdd(c, space) == [c EXCEPT !.m_tuple = Append(@, space)]

OpenGymDictContainer == [NullPtr EXCEPT !.kind = "Dict"]

\* std::map::find on the entry sequence
DictHas(m, key) == \E i \in 1..Len(m) : m[i].key = key

\* variant of MapInsert that keeps the entries in insertion order
MapInsert_Append(m, key, data) ==
    IF DictHas(m, key) THEN m ELSE Append(m, [key |-> key, val |-> data])

\* variant of MapInsert that replaces the value of a key that is present
MapInsert_Overwrite(m, key, data) ==
    IF DictHas(m, key)
    THEN [i \in 1..Len(m) |-> IF m[i].key = key
                              THEN [key |-> key, val |-> data] ELSE m[i]]
    ELSE LET lower == SelectSeq(m, LAMBDA e : KeyLess(e.key, key))
             upper == SelectSeq(m, LAMBDA e : KeyLess(key, e.key))
         IN  lower \o <<[key |-> key, val |-> data]>> \o upper

\* std::map::insert: no effect when the key is present, otherwise the
\* entry goes to its place in key order
MapInsert(m, key, data) ==
    IF DictHas(m, key) THEN m
    ELSE LET lower == SelectSeq(m, LAMBDA e : KeyLess(e.key, key))
             upper == SelectSeq(m, LAMBDA e : KeyLess(key, e.key))
         IN  lower \o <<[key |-> key, val |-> data]>> \o upper

\* OpenGymDictContainer::Add
DictAdd(c, key, data) == [c EXCEPT !.m_dict = MapInsert(@, key, data)]

\* what OpenGymDictContainer::Add returns: return true;
DictAddResult(c, key, data) == TRUE

\* OpenGymDictContainer::Get
DictGet(c, key) ==
    IF DictHas(c.m_dict, key)
    THEN c.m_dict[CHOOSE i \in 1..Len(c.m_dict) : c.m_dict[i].key = key].val
    ELSE NullPtr

(***************************************************************************)
(* Print(std::ostream& where).  The stream is a record: the text written   *)
(* so far, and ok, false once the process has ended during the writing.    *)
(***************************************************************************)
EmptyStream == [text |-> "", ok |-> TRUE]

\* where << s
Write(where, s) == IF where.ok THEN [where EXCEPT !.text = @ \o s] ELSE where

\* std::to_string(T): decimal digits for the integer kinds, "%f" (six
\* decimals) for float and double; the values of the model are whole numbers
ToStdString(name, value) ==
    IF name \in {"float", "double"} THEN ToString(value) \o ".000000"
    ELSE ToString(value)

\* OpenGymDiscreteContainer::Print
DiscretePrint(c, where) == Write(where, ToStdString("uint32_t", c.m_value))

RECURSIVE BoxPrintFrom(_, _, _)
\* the loop of OpenGymBoxContainer<T>::Print from element i on
BoxPrintFrom(c, i, where) ==
    IF i > Len(c.m_data) THEN where
    ELSE LET w1 == Write(where, ToStdString(c.T, c.m_data[i]))
             w2 == IF i + 1 <= Len(c.m_data) THEN Write(w1, ", ") ELSE w1
         IN  BoxPrintFrom(c, i + 1, w2)

\* OpenGymBoxContainer<T>::Print
BoxPrint(c, where) == Write(BoxPrintFrom(c, 1, Write(where, "[")), "]")

RECURSIVE ContainerPrint(_, _)
RECURSIVE TuplePrintFrom(_, _, _)
RECURSIVE DictPrintFrom(_, _, _)

\* the loop of OpenGymTupleContainer::Print from element i on
TuplePrintFrom(c, i, where) ==
    IF i > Len(c.m_tuple) \/ ~where.ok THEN where
    ELSE LET w1 == ContainerPrint(c.m_tuple[i], where)
             w2 == IF i + 1 <= Len(c.m_tuple) THEN Write(w1, ", ") ELSE w1
         IN  TuplePrintFrom(c, i + 1, w2)

\* OpenGymTupleContainer::Print
TuplePrint(c, where) == Write(TuplePrintFrom(c, 1, Write(where, "Tuple(")), ")")

\* the loop of OpenGymDictContainer::Print from entry i on
DictPrintFrom(c, i, where) ==
    IF i > Len(c.m_dict) \/ ~where.ok THEN where
    ELSE LET w1 == Write(Write(where, c.m_dict[i].key), "=")
             w2 == ContainerPrint(c.m_dict[i].val, w1)
             w3 == IF i + 1 <= Len(c.m_dict) THEN Write(w2, ", ") ELSE w2
         IN  DictPrintFrom(c, i + 1, w3)

\* OpenGymDictContainer::Print
DictPrint(c, where) == Write(DictPrintFrom(c, 1, Write(where, "Dict(")), ")")

\* container->Print(where) through a Ptr, by dynamic type; through a null
\* Ptr the call ends the process (the Ptr's assertion, or the call on a
\* null object)
ContainerPrint(c, where) ==
    CASE c.kind = "Discrete" -> DiscretePrint(c, where)
      [] c.kind = "Box" -> BoxPrint(c, where)
      [] c.kind = "Tuple" -> TuplePrint(c, where)
      [] c.kind = "Dict" -> DictPrint(c, where)
      [] OTHER -> [where EXCEPT !.ok = FALSE]

(***************************************************************************)
(* The DataContainer wire message (ns3penv::DataContainer, a oneof of      *)
(* discrete / box / tuple / dict, with the name annotation).               *)
(***************************************************************************)
DataContainerMsg ==
    [data_case |-> "DATA_NOT_SET", name |-> "", data |-> 0, shape |-> <<>>,
     dtype |-> "", intData |-> <<>>, uintData |-> <<>>, floatData |-> <<>>,
     doubleData |-> <<>>, element |-> <<>>]

\* the outcome of a conversion that ends the process (NS_ABORT_MSG, or the
\* dereference of a null Ptr)
AbortMsg == [DataContainerMsg EXCEPT !.data_case = "ABORT"]

AbortPtr == [NullPtr EXCEPT !.kind = "Abort"]

\* OpenGymDiscreteContainer::GetDataContainerPbMsg
DiscreteGetDataContainerPbMsg(c) ==
    [DataContainerMsg EXCEPT !.data_case = "kDiscrete", !.data = c.m_value]

\* OpenGymBoxContainer<T>::GetDataContainerPbMsg
BoxGetDataContainerPbMsg(c) ==
    LET boxMsg == [DataContainerMsg EXCEPT !.data_case = "kBox",
                                           !.shape = GetShape(c),
                                           !.dtype = c.m_dtype]
        data == GetData(c)
    IN  CASE c.m_dtype = "INT"    -> [boxMsg EXCEPT !.intData = data]
          [] c.m_dtype = "UINT"   -> [boxMsg EXCEPT !.uintData = data]
          [] c.m_dtype = "FLOAT"  -> [boxMsg EXCEPT !.floatData = data]
          [] c.m_dtype = "DOUBLE" -> [boxMsg EXCEPT !.doubleData = data]
          [] OTHER                -> AbortMsg

RECURSIVE GetDataContainerPbMsg(_)
\* virtual OpenGymDataContainer::GetDataContainerPbMsg, by dynamic type;
\* called through a null Ptr it ends the process
GetDataContainerPbMsg(c) ==
    CASE c.kind = "Discrete" -> DiscreteGetDataContainerPbMsg(c)
      [] c.kind = "Box" -> BoxGetDataContainerPbMsg(c)
      [] c.kind = "Tuple" ->
            LET subs == [i \in 1..Len(c.m_tuple) |->
                            GetDataContainerPbMsg(c.m_tuple[i])]
            IN  IF \E i \in 1..Len(subs) : subs[i].data_case = "ABORT"
                THEN AbortMsg
                ELSE [DataContainerMsg EXCEPT !.data_case = "kTuple",
                                              !.element = subs]
      [] c.kind = "Dict" ->
            LET subs == [i \in 1..Len(c.m_dict) |->
                            [GetDataContainerPbMsg(c.m_dict[i].val)
                                EXCEPT !.name = c.m_dict[i].key]]
            IN  IF \E i \in 1..Len(subs) : subs[i].data_case = "ABORT"
                THEN AbortMsg
                ELSE [DataContainerMsg EXCEPT !.data_case = "kDict",
                                              !.element = subs]
      [] OTHER -> AbortMsg

\* the shape given to a decoded Box: CreateObject<OpenGymBoxContainer<T>>()
\* is the default constructor, the message's shape field is not read
DecodedBoxShape(boxMsg) == <<>>

\* variant of BoxFromPbMsg that leaves the Ptr null on an unknown dtype
BoxFromPbMsg_NullOnUnknown(boxMsg) ==
    CASE boxMsg.dtype = "INT" ->
            SetData(OpenGymBoxContainer("int32_t", <<>>), boxMsg.intData)
      [] boxMsg.dtype = "UINT" ->
            SetData(OpenGymBoxContainer("uint32_t", <<>>), boxMsg.uintData)
      [] boxMsg.dtype = "FLOAT" ->
            SetData(OpenGymBoxContainer("float", <<>>), boxMsg.floatData)
      [] boxMsg.dtype = "DOUBLE" ->
            SetData(OpenGymBoxContainer("double", <<>>), boxMsg.doubleData)
      [] OTHER -> NullPtr

\* the kBox case of CreateFromDataContainerPbMsg
BoxFromPbMsg(boxMsg) ==
    CASE boxMsg.dtype = "INT" ->
            SetData(OpenGymBoxContainer("int32_t", DecodedBoxShape(boxMsg)),
                    boxMsg.intData)
      [] boxMsg.dtype = "UINT" ->
            SetData(OpenGymBoxContainer("uint32_t", DecodedBoxShape(boxMsg)),
                    boxMsg.uintData)
      [] boxMsg.dtype = "FLOAT" ->
            SetData(OpenGymBoxContainer("float", DecodedBoxShape(boxMsg)),
                    boxMsg.floatData)
      [] boxMsg.dtype = "DOUBLE" ->
            SetData(OpenGymBoxContainer("double", DecodedBoxShape(boxMsg)),
                    boxMsg.doubleData)
      [] OTHER -> AbortPtr

RECURSIVE AddAllToDict(_, _)
\* the loop dictData->Add(element.name(), subSpace) over decoded elements
AddAllToDict(dict, entries) ==
    IF entries = <<>> THEN dict
    ELSE AddAllToDict(DictAdd(dict, Head(entries).key, Head(entries).val),
                      Tail(entries))

RECURSIVE CreateFromDataContainerPbMsg(_)
\* OpenGymDataContainer::CreateFromDataContainerPbMsg
CreateFromDataContainerPbMsg(msg) ==
    CASE msg.data_case = "kDiscrete" ->
            SetValue(OpenGymDiscreteContainer(0, 0), msg.data)
      [] msg.data_case = "kBox" -> BoxFromPbMsg(msg)
      [] msg.data_case = "kTuple" ->
            LET subs == [i \in 1..Len(msg.element) |->
                            CreateFromDataContainerPbMsg(msg.element[i])]
            IN  IF \E i \in 1..Len(subs) : subs[i].kind = "Abort"
                THEN AbortPtr
                ELSE [OpenGymTupleContainer EXCEPT !.m_tuple = subs]
      [] msg.data_case = "kDict" ->
            LET subs == [i \in 1..Len(msg.element) |->
                            [key |-> msg.element[i].name,
                             val |-> CreateFromDataContainerPbMsg(msg.element[i])]]
            IN  IF \E i \in 1..Len(subs) : subs[i].val.kind = "Abort"
                THEN AbortPtr
                ELSE AddAllToDict(OpenGymDictContainer, subs)
      [] OTHER -> AbortPtr

(***************************************************************************)
(* State.                                                                  *)
(***************************************************************************)
VARIABLES
    \* containers under construction: the last one is the one being
    \* operated on, the one before it the Tuple or Dict it will be added to
    stack,
    \* the last conversion: a container, its message, the container decoded
    \* from that message
    rt,
    \* the last read or printing of a container, or decoding of a received
    \* message: the method, its argument and what it returned or wrote
    got,
    \* OpenGymInterface members
    m_simEnd, m_stopEnvRequested, m_initSimMsgSent,
    \* the callback slots: slot name -> bound (not IsNull)
    cb,
    \* where the simulation process is: "idle" (in the simulation, no
    \* interface method running), "InitRecv" (blocked in the CppRecvBegin of
    \* Init), "StateRecv" (blocked in the CppRecvBegin of
    \* NotifyCurrentState), "exited" (std::exit), "aborted" (failed assert
    \* or NS_ABORT_MSG)
    pc,
    \* the method that called the Init now blocked ("" when none is)
    after,
    \* the two shared structures of the transport and their semaphores
    cpp2py, py2cpp,
    \* history: the transport operations of the simulation side, in order
    ops,
    \* history: the number of SimInit messages sent
    nSimInit,
    \* history: the callback slots invoked by the last method step
    invoked,
    \* history: the container decoded from the EnvAct in the last step
    actDataContainer,
    \* history: what ExecuteActions returned in the last step ("none" when
    \* the step did not run it)
    reply,
    \* history: what m_gameOverCb returned in the last method step: "true",
    \* "false", or "none" when the step did not run it
    gameOver,
    \* history: the last protocol method called (Init, NotifyCurrentState,
    \* WaitForStop, NotifySimulationEnd, Notify), and the number of such calls
    lastCall, calls,
    \* history: a reply carrying stopSimReq was received
    stopSeen,
    \* history: NotifySimulationEnd was called before the handshake
    simEndBeforeInit,
    \* history: the rendezvous started by NotifySimulationEnd has completed
    endRoundDone,
    \* history: the spaces the entity had for the Init of the last method
    \* step (what its bound space callbacks returned; the null space for an
    \* unbound slot, and when the step sent no SimInit)
    spaces,
    \* the process-wide Ns3penvMsgInterface: the id in the names given last
    \* by SetNames, and the id in the names of the channel set it has opened
    \* (0 when none)
    msgInterface,
    \* the OpenGymInterface instances of the process: m_envId (0 before the
    \* instance is constructed), the number of its exchanges, and the id in
    \* the names of the channel set its last exchange went over (0 when none)
    envs

cvars == <<stack, rt, got>>

evars == <<msgInterface, envs>>

pvars == <<m_simEnd, m_stopEnvRequested, m_initSimMsgSent, cb, pc, after,
           cpp2py, py2cpp, ops, nSimInit, invoked, actDataContainer, reply,
           gameOver, lastCall, calls, stopSeen, simEndBeforeInit, endRoundDone, spaces>>

vars == <<stack, rt, got, m_simEnd, m_stopEnvRequested, m_initSimMsgSent, cb, pc,
          after, cpp2py, py2cpp, ops, nSimInit, invoked, actDataContainer,
          reply, gameOver, lastCall, calls, stopSeen, simEndBeforeInit,
          endRoundDone, spaces, msgInterface, envs>>

(***************************************************************************)
(* Messages of the protocol (messages.proto, as used by the interface).    *)
(***************************************************************************)
\* the callback slots of OpenGymInterface
Slots == {"m_actionSpaceCb", "m_observationSpaceCb", "m_gameOverCb",
          "m_obsCb", "m_rewardCb", "m_extraInfoCb", "m_actionCb"}

\* a message of the simulation side; obsSpace / actSpace hold the space
\* description ("" when the field is not set), reason is "" when not set
NoMsg ==
    [type |-> "none", obsSpace |-> "", actSpace |-> "", hasObsData |-> FALSE,
     obsData |-> DataContainerMsg, reward |-> 0, isGameOver |-> FALSE,
     reason |-> "", info |-> ""]

\* ns3penv::SimInitMsg simInitMsg;
SimInitMsg == [NoMsg EXCEPT !.type = "SimInit"]

\* ns3penv::EnvStateMsg envStateMsg;
EnvStateMsg == [NoMsg EXCEPT !.type = "EnvState"]

\* a message of the remote side: SimInitAck {done, stopSimReq} or
\* EnvActMsg {actData, stopSimReq}
NoReply ==
    [type |-> "none", done |-> FALSE, stopSimReq |-> FALSE,
     actData |-> DataContainerMsg]

\* the decoded action when the step decoded none
NotDecoded == [NullPtr EXCEPT !.kind = "None"]

\* the state after OpenGymInterface(envId) and the setters of the slots in
\* bound: the three flags false, the other callback slots null, nothing in
\* the transport
ConstructedWith(bound) ==
    /\ m_simEnd = FALSE
    /\ m_stopEnvRequested = FALSE
    /\ m_initSimMsgSent = FALSE
    /\ cb = [slot \in Slots |-> slot \in bound]
    /\ pc = "idle"
    /\ after = ""
    /\ cpp2py = [size |-> 0, buffer |-> NoMsg, serialized |-> 0, ready |-> FALSE]
    /\ py2cpp = [buffer |-> NoReply, ready |-> FALSE]
    /\ ops = <<>>
    /\ nSimInit = 0
    /\ invoked = <<>>
    /\ actDataContainer = NotDecoded
    /\ reply = "none"
    /\ gameOver = "none"
    /\ lastCall = ""
    /\ calls = 0
    /\ stopSeen = FALSE
    /\ simEndBeforeInit = FALSE
    /\ endRoundDone = FALSE
    /\ spaces = [obs |-> "", act |-> ""]

Constructed == ConstructedWith({})

(***************************************************************************)
(* The OpenGymInterface instances of one process and the process-wide      *)
(* Ns3penvMsgInterface they reach through Ns3penvMsgInterface::Get().      *)
(***************************************************************************)
\* the instances a simulation constructs
Insts == {1, 2}

\* the environment ids given to the constructor
EnvIds == {1, 2, 3}

\* the singleton before any SetNames, no channel set opened
NoMsgInterface == [names |-> 0, opened |-> 0]

NoEnvs == [i \in Insts |-> [m_envId |-> 0, sent |-> 0, via |-> 0]]

\* interface->SetNames("seg" + id, "cpp2py" + id, "py2cpp" + id,
\* "lockable" + id)
SetNames(m, envId) == [m EXCEPT !.names = envId]

\* Ns3penvMsgInterface::Get()->GetInterface<>(): the singleton afterwards.
\* The first call opens the channel set of the names then set; a later
\* call returns that one or the one of the names set since
GetInterface(m) ==
    IF m.opened = 0 THEN {[m EXCEPT !.opened = m.names]}
    ELSE {m, [m EXCEPT !.opened = m.names]}

\* one instance, constructed with environment id 1
OneInterface ==
    /\ msgInterface = SetNames(NoMsgInterface, 1)
    /\ envs = [NoEnvs EXCEPT ![1].m_envId = 1]

\* OpenGymInterface(envId) for one more instance, the ids being different
NewInterface ==
    \E i \in Insts, envId \in EnvIds :
        /\ envs[i].m_envId = 0
        /\ \A j \in Insts : envs[j].m_envId # envId
        /\ envs' = [envs EXCEPT ![i].m_envId = envId]
        /\ msgInterface' = SetNames(msgInterface, envId)
        /\ UNCHANGED <<cvars, pvars>>

\* largest number of exchanges of one instance
MaxExchanges == 3

\* an exchange of instance i (the send and receive of its Init or
\* NotifyCurrentState) over Ns3penvMsgInterface::Get()->GetInterface<>()
InstanceExchange ==
    \E i \in Insts :
        /\ envs[i].m_envId # 0
        /\ envs[i].sent < MaxExchanges
        /\ \E m \in GetInterface(msgInterface) :
              /\ msgInterface' = m
              /\ envs' = [envs EXCEPT ![i].sent = @ + 1, ![i].via = m.opened]
        /\ UNCHANGED <<cvars, pvars>>

NoConversion == [done |-> FALSE, orig |-> NullPtr, msg |-> DataContainerMsg,
                 decoded |-> NullPtr]

NoRead ==
    [op |-> "none", idx |-> 0, key |-> "", msg |-> DataContainerMsg,
     value |-> 0, ptr |-> NullPtr, os |-> EmptyStream]

RECURSIVE HasNull(_)
\* a null Ptr was added somewhere in the container
HasNull(c) ==
    \/ c.kind = "Null"
    \/ \E i \in 1..Len(c.m_tuple) : HasNull(c.m_tuple[i])
    \/ \E i \in 1..Len(c.m_dict) : HasNull(c.m_dict[i].val)

RECURSIVE Size(_)
\* containers, Box elements and shape entries of a container
Size(c) ==
    LET RECURSIVE Sum(_, _)
        Sum(seq, i) == IF i > Len(seq) THEN 0 ELSE Size(seq[i]) + Sum(seq, i + 1)
    IN  1 + Len(c.m_data) + Len(c.m_shape) + Sum(c.m_tuple, 1)
          + Sum([i \in 1..Len(c.m_dict) |-> c.m_dict[i].val], 1)

RECURSIVE StackSize(_)
StackSize(st) == IF st = <<>> THEN 0 ELSE Size(Head(st)) + StackSize(Tail(st))

Top == stack[Len(stack)]

\* replace the container being operated on
SetTop(c) == stack' = [stack EXCEPT ![Len(stack)] = c]

Fits(st) == StackSize(st) <= MaxSize

(***************************************************************************)
(* Container operations as actions.                                        *)
(***************************************************************************)
\* CreateObject<OpenGymDiscreteContainer>(n)
NewDiscrete ==
    \E n \in DiscreteNs, garbage \in Vals :
        /\ Fits(Append(stack, OpenGymDiscreteContainer(n, garbage)))
        /\ stack' = Append(stack, OpenGymDiscreteContainer(n, garbage))
        /\ rt' = NoConversion
        /\ got' = NoRead
        /\ UNCHANGED <<pvars, evars>>

\* discrete->SetValue(value)
DoSetValue ==
    \E value \in Vals :
        /\ stack # <<>> /\ Top.kind = "Discrete"
        /\ SetTop(SetValue(Top, value))
        /\ rt' = NoConversion
        /\ got' = NoRead
        /\ UNCHANGED <<pvars, evars>>

\* CreateObject<OpenGymBoxContainer<T>>(shape)
NewBox ==
    \E name \in BoxTypes, shape \in Shapes :
        /\ Fits(Append(stack, OpenGymBoxContainer(name, shape)))
        /\ stack' = Append(stack, OpenGymBoxContainer(name, shape))
        /\ rt' = NoConversion
        /\ got' = NoRead
        /\ UNCHANGED <<pvars, evars>>

\* box->AddValue(value)
DoAddValue ==
    \E value \in Vals :
        /\ stack # <<>> /\ Top.kind = "Box"
        /\ Fits([stack EXCEPT ![Len(stack)] = AddValue(Top, value)])
        /\ SetTop(AddValue(Top, value))
        /\ rt' = NoConversion
        /\ got' = NoRead
        /\ UNCHANGED <<pvars, evars>>

\* box->SetData(data), with data of at most two elements
DoSetData ==
    \E data \in {<<>>} \cup {<<v>> : v \in Vals} \cup {<<v, w>> : v, w \in Vals} :
        /\ stack # <<>> /\ Top.kind = "Box"
        /\ Fits([stack EXCEPT ![Len(stack)] = SetData(Top, data)])
        /\ SetTop(SetData(Top, data))
        /\ rt' = NoConversion
        /\ got' = NoRead
        /\ UNCHANGED <<pvars, evars>>

\* CreateObject<OpenGymTupleContainer>()
NewTuple ==
    /\ Fits(Append(stack, OpenGymTupleContainer))
    /\ stack' = Append(stack, OpenGymTupleContainer)
    /\ rt' = NoConversion
    /\ got' = NoRead
    /\ UNCHANGED <<pvars, evars>>

\* CreateObject<OpenGymDictContainer>()
NewDict ==
    /\ Fits(Append(stack, OpenGymDictContainer))
    /\ stack' = Append(stack, OpenGymDictContainer)
    /\ rt' = NoConversion
    /\ got' = NoRead
    /\ UNCHANGED <<pvars, evars>>

\* tuple->Add(space), space being the container built last
DoTupleAdd ==
    /\ Len(stack) >= 2 /\ stack[Len(stack) - 1].kind = "Tuple"
    /\ stack' = [SubSeq(stack, 1, Len(stack) - 1) EXCEPT
                    ![Len(stack) - 1] = TupleAdd(@, Top)]
    /\ rt' = NoConversion
    /\ got' = NoRead
    /\ UNCHANGED <<pvars, evars>>

\* tuple->Add(space) with a null Ptr
DoTupleAddNull ==
    /\ stack # <<>> /\ Top.kind = "Tuple"
    /\ Fits([stack EXCEPT ![Len(stack)] = TupleAdd(Top, NullPtr)])
    /\ SetTop(TupleAdd(Top, NullPtr))
    /\ rt' = NoConversion
    /\ got' = NoRead
    /\ UNCHANGED <<pvars, evars>>

\* dict->Add(key, data), data being the container built last
DoDictAdd ==
    \E key \in Keys :
        /\ Len(stack) >= 2 /\ stack[Len(stack) - 1].kind = "Dict"
        /\ stack' = [SubSeq(stack, 1, Len(stack) - 1) EXCEPT
                        ![Len(stack) - 1] = DictAdd(@, key, Top)]
        /\ rt' = NoConversion
        /\ got' = NoRead
        /\ UNCHANGED <<pvars, evars>>

\* dict->Add(key, data) with a null Ptr
DoDictAddNull ==
    \E key \in Keys :
        /\ stack # <<>> /\ Top.kind = "Dict"
        /\ Fits([stack EXCEPT ![Len(stack)] = DictAdd(Top, key, NullPtr)])
        /\ SetTop(DictAdd(Top, key, NullPtr))
        /\ rt' = NoConversion
        /\ got' = NoRead
        /\ UNCHANGED <<pvars, evars>>

\* the container is dropped (its last Ptr goes away)
Drop ==
    /\ stack # <<>>
    /\ stack' = SubSeq(stack, 1, Len(stack) - 1)
    /\ rt' = NoConversion
    /\ got' = NoRead
    /\ UNCHANGED <<pvars, evars>>

\* msg = c->GetDataContainerPbMsg(); CreateFromDataContainerPbMsg(msg)
Convert ==
    /\ Len(stack) = 1
    /\ LET msg == GetDataContainerPbMsg(Top)
       IN  rt' = [done |-> TRUE, orig |-> Top, msg |-> msg,
                  decoded |-> IF msg.data_case = "ABORT" THEN AbortPtr
                              ELSE CreateFromDataContainerPbMsg(msg)]
    /\ got' = NoRead
    /\ UNCHANGED stack
    /\ UNCHANGED <<pvars, evars>>

\* the indexes given to GetValue and Get on a container of n elements: the
\* ones below n, n itself and the one after it
Idxs(n) == 0..(n + 1)

\* box->GetValue(idx) on the finished container
DoGetValue ==
    /\ Len(stack) = 1 /\ Top.kind = "Box"
    /\ \E idx \in Idxs(Len(Top.m_data)) :
          got' = [NoRead EXCEPT !.op = "GetValue", !.idx = idx,
                                !.value = GetValue(Top, idx)]
    /\ rt' = NoConversion
    /\ UNCHANGED stack
    /\ UNCHANGED <<pvars, evars>>

\* tuple->Get(idx) on the finished container
DoTupleGet ==
    /\ Len(stack) = 1 /\ Top.kind = "Tuple"
    /\ \E idx \in Idxs(Len(Top.m_tuple)) :
          got' = [NoRead EXCEPT !.op = "TupleGet", !.idx = idx,
                                !.ptr = TupleGet(Top, idx)]
    /\ rt' = NoConversion
    /\ UNCHANGED stack
    /\ UNCHANGED <<pvars, evars>>

\* dict->Get(key) on the finished container
DoDictGet ==
    \E key \in Keys :
        /\ Len(stack) = 1 /\ Top.kind = "Dict"
        /\ got' = [NoRead EXCEPT !.op = "DictGet", !.key = key,
                                 !.ptr = DictGet(Top, key)]
        /\ rt' = NoConversion
        /\ UNCHANGED stack
        /\ UNCHANGED <<pvars, evars>>

\* the data_case of a message whose oneof is not set, and the dtype of a
\* Box message whose enum value is none of INT, UINT, FLOAT, DOUBLE
UnknownCases == {"DATA_NOT_SET"}

UnknownDtypes == {"UNKNOWN"}

RECURSIVE Damaged(_)
\* the messages a remote side of another protocol version can send in
\* place of msg: one node has its oneof not set, or one Box node has an
\* unknown dtype
Damaged(msg) ==
    {[DataContainerMsg EXCEPT !.data_case = dc, !.name = msg.name] :
        dc \in UnknownCases}
    \cup (IF msg.data_case = "kBox"
          THEN {[msg EXCEPT !.dtype = dt] : dt \in UnknownDtypes} ELSE {})
    \cup UNION {{[msg EXCEPT !.element[i] = sub] : sub \in Damaged(msg.element[i])} :
                 i \in 1..Len(msg.element)}

\* CreateFromDataContainerPbMsg(msg) on a received message that is the
\* encoding of the finished container, damaged at one node
DecodeDamaged ==
    /\ Len(stack) = 1 /\ ~HasNull(Top)
    /\ \E msg \in Damaged(GetDataContainerPbMsg(Top)) :
          got' = [NoRead EXCEPT !.op = "Decode", !.msg = msg,
                                !.ptr = CreateFromDataContainerPbMsg(msg)]
    /\ rt' = NoConversion
    /\ UNCHANGED stack
    /\ UNCHANGED <<pvars, evars>>

\* dict->Add(key, data) on the finished Dict, whether it has the key or
\* not, data being a new Discrete; value is 1 when Add returned true
DoDictAddAgain ==
    \E key \in Keys, v \in Vals :
        LET data == SetValue(OpenGymDiscreteContainer(2, 0), v)
        IN  /\ Len(stack) = 1 /\ Top.kind = "Dict"
            /\ Fits(<<DictAdd(Top, key, data)>>)
            /\ SetTop(DictAdd(Top, key, data))
            /\ got' = [NoRead EXCEPT
                          !.op = "DictAdd", !.key = key, !.ptr = data,
                          !.value = IF DictAddResult(Top, key, data) THEN 1
                                    ELSE 0]
            /\ rt' = NoConversion
            /\ UNCHANGED <<pvars, evars>>

\* the Dict messages a remote side can send that have one name twice: the
\* encoding of a Dict with one element under the name of another
Duplicated(msg) ==
    IF msg.data_case # "kDict" THEN {}
    ELSE LET pairs == {p \in (1..Len(msg.element)) \X (1..Len(msg.element)) :
                          p[1] # p[2]}
         IN  {[msg EXCEPT !.element[p[2]].name = msg.element[p[1]].name] :
                p \in pairs}

\* CreateFromDataContainerPbMsg(msg) on a received Dict message that has
\* one name twice
DecodeDuplicated ==
    /\ Len(stack) = 1 /\ ~HasNull(Top)
    /\ \E msg \in Duplicated(GetDataContainerPbMsg(Top)) :
          got' = [NoRead EXCEPT !.op = "DecodeDict", !.msg = msg,
                                !.ptr = CreateFromDataContainerPbMsg(msg)]
    /\ rt' = NoConversion
    /\ UNCHANGED stack
    /\ UNCHANGED <<pvars, evars>>

\* os << container, on the finished container
DoPrint ==
    /\ Len(stack) = 1
    /\ got' = [NoRead EXCEPT !.op = "Print",
                             !.os = ContainerPrint(Top, EmptyStream)]
    /\ rt' = NoConversion
    /\ UNCHANGED stack
    /\ UNCHANGED <<pvars, evars>>

ContainerInit ==
    /\ stack = <<>>
    /\ rt = NoConversion
    /\ got = NoRead
    /\ OneInterface
    /\ Constructed

\* element kinds outside the four explicit instantiations: one SetDtype does
\* not name and one it names
OtherTypes == {"bool", "int64_t"}

\* OpenGymBoxContainer<T>(shape) for an element kind outside the four
\* explicit instantiations, as the first construction of the program; the
\* constructor runs SetDtype, and m_dtype "ABORT" says it did not return
NewBoxUnsupported ==
    \E name \in OtherTypes, shape \in Shapes :
        /\ stack = <<>>
        /\ got' = [NoRead EXCEPT !.op = "NewBox",
                                 !.ptr = OpenGymBoxContainer(name, shape)]
        /\ rt' = NoConversion
        /\ UNCHANGED stack
        /\ UNCHANGED <<pvars, evars>>

\* the operations that construct the containers
Build ==
    \/ NewDiscrete \/ DoSetValue
    \/ NewBox \/ DoAddValue \/ DoSetData
    \/ NewTuple \/ DoTupleAdd \/ DoTupleAddNull
    \/ NewDict \/ DoDictAdd \/ DoDictAddNull
    \/ Drop

\* containers are constructed, encoded and decoded again
ContainerNext == Build \/ Convert \/ NewBoxUnsupported

ContainerSpec == ContainerInit /\ [][ContainerNext]_vars

\* containers are constructed and read
AccessNext == Build \/ DoGetValue \/ DoTupleGet \/ DoDictGet

AccessSpec == ContainerInit /\ [][AccessNext]_vars

\* containers are constructed, and their encodings decoded after damage
DecodeNext == Build \/ DecodeDamaged

DecodeSpec == ContainerInit /\ [][DecodeNext]_vars

\* containers are constructed and printed
FormatNext == Build \/ DoPrint

FormatSpec == ContainerInit /\ [][FormatNext]_vars

\* construction, with Add on the finished Dict and the decoding of Dict
\* messages that have a name twice
DictNext == Build \/ DoDictAddAgain \/ DecodeDuplicated

DictSpec == ContainerInit /\ [][DictNext]_vars

(***************************************************************************)
(* Properties of the container model.                                      *)
(***************************************************************************)
RECURSIVE Structure(_)
\* what the round-trip law compares: the variant, Box shape, dtype and data,
\* Tuple elements, Dict keys and values (not the Discrete bound m_n)
Structure(c) ==
    [c EXCEPT !.m_n = 0,
              !.m_tuple = [i \in 1..Len(c.m_tuple) |-> Structure(c.m_tuple[i])],
              !.m_dict = [i \in 1..Len(c.m_dict) |->
                            [key |-> c.m_dict[i].key,
                             val |-> Structure(c.m_dict[i].val)]]]

\* C1: round-trip law: for every container c built from Discrete, Box,
\* Tuple and Dict, CreateFromDataContainerPbMsg(c.GetDataContainerPbMsg())
\* is structurally equal to c (variant, Box shape, dtype, data, Tuple
\* elements, Dict keys and values).
C1_RoundTripLaw ==
    (rt.done /\ ~HasNull(rt.orig)) => Structure(rt.decoded) = Structure(rt.orig)

(***************************************************************************)
(* Protocol engine (ns3penv-gym-interface.cc).                             *)
(*                                                                         *)
(* The methods are operators from the state s of the simulation process    *)
(* (a record of the variables) and the inputs `in` of the call (what the   *)
(* environment's callbacks return and what ByteSizeLong reports) to the    *)
(* state in which the method returns, blocks, or ends the process.         *)
(***************************************************************************)
\* largest number of method calls made by the simulation
MaxCalls == 3

\* largest encoded size of a message
MaxMsgSize == 2

\* the capacity of the transport buffer (a build-time constant of the
\* transport), placed one below the largest message size of the model
MSG_BUFFER_SIZE == MaxMsgSize - 1

\* what a bound space callback returns: a null Ptr or the entity's space
NullSpace == ""

ObsSpaces == {NullSpace, "obs-space"}

ActSpaces == {NullSpace, "act-space"}

\* what the entity's GetObservation returns
EnvObs == {NullPtr, SetValue(OpenGymDiscreteContainer(2, 0), 1)}

\* what the entity's GetReward and GetExtraInfo return
EnvRewards == {1}

EnvInfos == {"info"}

\* the inputs of one method call in state s: what each bound callback
\* returns (an unbound slot calls nothing) and the encoded sizes of the
\* messages the call can build
Inputs(s) ==
    [obsSpace : IF s.cb["m_observationSpaceCb"] /\ ~s.m_initSimMsgSent
                THEN ObsSpaces ELSE {NullSpace},
     actSpace : IF s.cb["m_actionSpaceCb"] /\ ~s.m_initSimMsgSent
                THEN ActSpaces ELSE {NullSpace},
     obs : IF s.cb["m_obsCb"] THEN EnvObs ELSE {NullPtr},
     gameOver : IF s.cb["m_gameOverCb"] THEN BOOLEAN ELSE {FALSE},
     reward : EnvRewards, info : EnvInfos,
     initSize : IF s.m_initSimMsgSent THEN {1} ELSE 1..MaxMsgSize,
     stateSize : 1..MaxMsgSize]

\* the actData the remote side puts into an EnvAct: none, or an action
ActData ==
    {DataContainerMsg,
     GetDataContainerPbMsg(SetValue(OpenGymDiscreteContainer(2, 0), 1))}

Cur ==
    [m_simEnd |-> m_simEnd, m_stopEnvRequested |-> m_stopEnvRequested,
     m_initSimMsgSent |-> m_initSimMsgSent, cb |-> cb, pc |-> pc,
     after |-> after, cpp2py |-> cpp2py, py2cpp |-> py2cpp, ops |-> ops,
     nSimInit |-> nSimInit, invoked |-> invoked,
     actDataContainer |-> actDataContainer, reply |-> reply,
     gameOver |-> gameOver, stopSeen |-> stopSeen,
     simEndBeforeInit |-> simEndBeforeInit, endRoundDone |-> endRoundDone,
     spaces |-> spaces]

Becomes(s) ==
    /\ m_simEnd' = s.m_simEnd
    /\ m_stopEnvRequested' = s.m_stopEnvRequested
    /\ m_initSimMsgSent' = s.m_initSimMsgSent
    /\ cb' = s.cb
    /\ pc' = s.pc
    /\ after' = s.after
    /\ cpp2py' = s.cpp2py
    /\ py2cpp' = s.py2cpp
    /\ ops' = s.ops
    /\ nSimInit' = s.nSimInit
    /\ invoked' = s.invoked
    /\ actDataContainer' = s.actDataContainer
    /\ reply' = s.reply
    /\ gameOver' = s.gameOver
    /\ stopSeen' = s.stopSeen
    /\ simEndBeforeInit' = s.simEndBeforeInit
    /\ endRoundDone' = s.endRoundDone
    /\ spaces' = s.spaces

\* the slot's callback is run when it is bound
Invoke(s, slot) ==
    IF s.cb[slot] THEN [s EXCEPT !.invoked = Append(@, slot)] ELSE s

\* OpenGymInterface::GetActionSpace
GetActionSpace(s, in) ==
    IF s.cb["m_actionSpaceCb"] THEN in.actSpace ELSE NullSpace

\* variant of GetObservationSpace that asks the action-space slot
GetObservationSpace_FromActionCb(s, in) ==
    IF s.cb["m_actionSpaceCb"] THEN in.actSpace ELSE NullSpace

\* OpenGymInterface::GetObservationSpace
GetObservationSpace(s, in) ==
    IF s.cb["m_observationSpaceCb"] THEN in.obsSpace ELSE NullSpace

\* OpenGymInterface::GetObservation
GetObservation(s, in) == IF s.cb["m_obsCb"] THEN in.obs ELSE NullPtr

\* OpenGymInterface::GetReward
GetReward(s, in) == IF s.cb["m_rewardCb"] THEN in.reward ELSE 0

\* variant of IsGameOver without the m_simEnd term
IsGameOver_IgnoresSimEnd(s, in) ==
    IF s.cb["m_gameOverCb"] THEN in.gameOver ELSE FALSE

\* OpenGymInterface::IsGameOver
IsGameOver(s, in) ==
    (IF s.cb["m_gameOverCb"] THEN in.gameOver ELSE FALSE) \/ s.m_simEnd

\* OpenGymInterface::GetExtraInfo
GetExtraInfo(s, in) == IF s.cb["m_extraInfoCb"] THEN in.info ELSE ""

\* what the entity's ExecuteActions returns
EnvReplies == {TRUE}

\* variant of ExecuteActions that runs the callback whether bound or not
ExecuteActions_Unguarded(s, in) ==
    [s EXCEPT !.invoked = Append(@, "m_actionCb"), !.reply = in]

\* OpenGymInterface::ExecuteActions; in is what a bound m_actionCb returns
ExecuteActions(s, in) ==
    IF s.cb["m_actionCb"] THEN [Invoke(s, "m_actionCb") EXCEPT !.reply = in]
    ELSE [s EXCEPT !.reply = FALSE]

\* OpenGymSpace::GetSpaceDescription
GetSpaceDescription(space) == space

\* Message::ByteSizeLong: 0 for a message with no field set, otherwise the
\* size the content encodes to
ByteSizeLong(msg, size) ==
    IF msg \in {SimInitMsg, EnvStateMsg} THEN 0 ELSE size

\* variant of SizeFits with the size check left out
SizeFits_Unchecked(size) == TRUE

\* assert(msgInterface->GetCpp2PyStruct()->size <= MSG_BUFFER_SIZE)
SizeFits(size) == size <= MSG_BUFFER_SIZE

\* variant of CppSend without CppSendEnd: the message is never handed over
CppSend_NoEnd(s, msg, size) ==
    LET s1 == [s EXCEPT !.cpp2py.size = size]
    IN  IF size > MSG_BUFFER_SIZE THEN [s1 EXCEPT !.pc = "aborted"]
        ELSE [s1 EXCEPT !.cpp2py.buffer = msg,
                        !.cpp2py.serialized = size,
                        !.ops = Append(@, "send")]

\* CppSendBegin .. CppSendEnd around size = ByteSizeLong, the assert and
\* SerializeToArray
CppSend(s, msg, size) ==
    LET s1 == [s EXCEPT !.cpp2py.size = size]
    IN  IF ~SizeFits(size) THEN [s1 EXCEPT !.pc = "aborted"]
        ELSE [s1 EXCEPT !.cpp2py.buffer = msg,
                        !.cpp2py.serialized = size,
                        !.cpp2py.ready = TRUE,
                        !.ops = Append(@, "send")]

\* variant of CppRecv that leaves the reply marked unread
CppRecv_NoEnd(s) == [s EXCEPT !.ops = Append(@, "recv")]

\* CppRecvBegin .. CppRecvEnd around ParseFromArray
CppRecv(s) == [s EXCEPT !.py2cpp.ready = FALSE, !.ops = Append(@, "recv")]

\* variant of InitSent that never sees the flag
InitSent_Never(s) == FALSE

\* if (m_initSimMsgSent) return;
InitSent(s) == s.m_initSimMsgSent

\* Init up to its CppRecvBegin
InterfaceInit(s, in) ==
    IF InitSent(s) THEN s
    ELSE LET s0 == [s EXCEPT !.m_initSimMsgSent = TRUE,
                             !.spaces = [obs |-> in.obsSpace, act |-> in.actSpace]]
             s1 == Invoke(Invoke(s0, "m_observationSpaceCb"), "m_actionSpaceCb")
             obsSpace == GetObservationSpace(s, in)
             actionSpace == GetActionSpace(s, in)
             simInitMsg ==
                [SimInitMsg EXCEPT
                    !.obsSpace = IF obsSpace # NullSpace
                                 THEN GetSpaceDescription(obsSpace) ELSE "",
                    !.actSpace = IF actionSpace # NullSpace
                                 THEN GetSpaceDescription(actionSpace) ELSE ""]
             s2 == CppSend(s1, simInitMsg, ByteSizeLong(simInitMsg, in.initSize))
         IN  IF s2.pc = "aborted" THEN s2
             ELSE [s2 EXCEPT !.pc = "InitRecv", !.nSimInit = @ + 1]

\* variant of StopSimReq that never reads a stop request
StopSimReq_Ignored(msg) == FALSE

\* simInitAck.stopsimreq() / envActMsg.stopsimreq()
StopSimReq(msg) == msg.stopSimReq

\* Init from the return of CppRecvBegin on
InterfaceInitRecv(s) ==
    LET simInitAck == s.py2cpp.buffer
        s1 == [CppRecv(s) EXCEPT !.stopSeen = @ \/ simInitAck.stopSimReq]
    IN  IF StopSimReq(simInitAck)
        THEN [s1 EXCEPT !.m_stopEnvRequested = TRUE, !.pc = "exited"]
        ELSE [s1 EXCEPT !.pc = "idle"]

\* variant of GameOverReason that never reports the end of the simulation
GameOverReason_NoSimEnd(s, isGameOver) ==
    IF ~isGameOver THEN "" ELSE "GameOver"

\* the reason NotifyCurrentState sets on the EnvState ("" when it sets none)
GameOverReason(s, isGameOver) ==
    IF ~isGameOver THEN ""
    ELSE IF s.m_simEnd THEN "SimulationEnd"
    ELSE "GameOver"

\* variant of StopRequested that never sees the flag
StopRequested_Never(s) == FALSE

\* if (m_stopEnvRequested) return;
StopRequested(s) == s.m_stopEnvRequested

\* NotifyCurrentState from "if (m_stopEnvRequested)" to its CppRecvBegin
NotifyCurrentStateSend(s, in) ==
    IF StopRequested(s) THEN s
    ELSE LET s0 == Invoke(Invoke(Invoke(Invoke(s, "m_obsCb"), "m_rewardCb"),
                                 "m_gameOverCb"), "m_extraInfoCb")
             s1 == IF s.cb["m_gameOverCb"]
                   THEN [s0 EXCEPT !.gameOver = IF in.gameOver THEN "true"
                                                 ELSE "false"]
                   ELSE s0
             obsDataContainer == GetObservation(s, in)
             reward == GetReward(s, in)
             isGameOver == IsGameOver(s, in)
             extraInfo == GetExtraInfo(s, in)
             obsDataContainerPbMsg == GetDataContainerPbMsg(obsDataContainer)
             envStateMsg ==
                [EnvStateMsg EXCEPT
                    !.hasObsData = obsDataContainer # NullPtr,
                    !.obsData = IF obsDataContainer # NullPtr
                                THEN obsDataContainerPbMsg ELSE DataContainerMsg,
                    !.reward = reward,
                    !.isGameOver = isGameOver,
                    !.reason = GameOverReason(s, isGameOver),
                    !.info = extraInfo]
             s2 == CppSend(s1, envStateMsg,
                           ByteSizeLong(envStateMsg, in.stateSize))
         IN  IF obsDataContainer # NullPtr
                /\ obsDataContainerPbMsg.data_case = "ABORT"
             THEN [s1 EXCEPT !.pc = "aborted"]
             ELSE IF s2.pc = "aborted" THEN s2
             ELSE [s2 EXCEPT !.pc = "StateRecv"]

\* variant of NotifyCurrentState without the call of Init
NotifyCurrentState_NoInit(s, in) == NotifyCurrentStateSend(s, in)

\* OpenGymInterface::NotifyCurrentState up to the first CppRecvBegin
NotifyCurrentState(s, in) ==
    IF ~s.m_initSimMsgSent
    THEN LET s1 == InterfaceInit(s, in)
         IN  CASE s1.pc = "InitRecv" -> [s1 EXCEPT !.after = "NotifyCurrentState"]
               [] s1.pc = "idle" -> NotifyCurrentStateSend(s1, in)
               [] OTHER -> s1
    ELSE NotifyCurrentStateSend(s, in)

\* variant of SimEnd without the early return
SimEnd_Ignored(s) == FALSE

\* if (m_simEnd) return;   after the EnvAct was received
SimEnd(s) == s.m_simEnd

\* NotifyCurrentState from the return of CppRecvBegin on
NotifyCurrentStateRecv(s, in) ==
    LET envActMsg == s.py2cpp.buffer
        s1 == [CppRecv(s) EXCEPT !.stopSeen = @ \/ envActMsg.stopSimReq]
    IN  IF SimEnd(s1) THEN [s1 EXCEPT !.pc = "idle"]
        ELSE IF StopSimReq(envActMsg)
        THEN [s1 EXCEPT !.m_stopEnvRequested = TRUE, !.pc = "exited"]
        ELSE LET decoded == CreateFromDataContainerPbMsg(envActMsg.actData)
             IN  IF decoded.kind = "Abort"
                 THEN [s1 EXCEPT !.actDataContainer = decoded, !.pc = "aborted"]
                 ELSE ExecuteActions([s1 EXCEPT !.actDataContainer = decoded,
                                                !.pc = "idle"], in)

\* OpenGymInterface::WaitForStop
WaitForStop(s, in) == NotifyCurrentState(s, in)

\* variant of NotifySimulationEnd that flips m_simEnd
NotifySimulationEnd_Flips(s, in) ==
    LET s1 == [s EXCEPT !.m_simEnd = ~@,
                        !.simEndBeforeInit = @ \/ ~s.m_initSimMsgSent]
    IN  IF s1.m_initSimMsgSent THEN WaitForStop(s1, in) ELSE s1

\* OpenGymInterface::NotifySimulationEnd
NotifySimulationEnd(s, in) ==
    LET s1 == [s EXCEPT !.m_simEnd = TRUE,
                        !.simEndBeforeInit = @ \/ ~s.m_initSimMsgSent]
    IN  IF s1.m_initSimMsgSent THEN WaitForStop(s1, in) ELSE s1

\* variant of NotifyBinds with the two space slots bound too
NotifyBinds_All == Slots

\* the slots Notify binds to the entity
NotifyBinds ==
    {"m_gameOverCb", "m_obsCb", "m_rewardCb", "m_extraInfoCb", "m_actionCb"}

\* the Set...Cb(MakeCallback(..., entity)) calls of Notify
NotifyBind(s) ==
    [s EXCEPT !.cb = [slot \in Slots |-> s.cb[slot] \/ slot \in NotifyBinds]]

\* OpenGymInterface::Notify
Notify(s, in) == NotifyCurrentState(NotifyBind(s), in)

(***************************************************************************)
(* Actions of the protocol.                                                *)
(***************************************************************************)
\* the state at the start of a method step: the step's histories are empty
Fresh ==
    [Cur EXCEPT !.invoked = <<>>, !.actDataContainer = NotDecoded,
                !.reply = "none", !.gameOver = "none",
                !.spaces = [obs |-> "", act |-> ""]]

Called(name) ==
    /\ pc = "idle"
    /\ calls < MaxCalls
    /\ calls' = calls + 1
    /\ lastCall' = name
    /\ UNCHANGED <<cvars, evars>>

\* the simulation calls Init()
CallInit ==
    /\ Called("Init")
    /\ \E in \in Inputs(Fresh) : Becomes(InterfaceInit(Fresh, in))

\* the simulation calls NotifyCurrentState()
CallNotifyCurrentState ==
    /\ Called("NotifyCurrentState")
    /\ \E in \in Inputs(Fresh) : Becomes(NotifyCurrentState(Fresh, in))

\* the simulation calls WaitForStop()
CallWaitForStop ==
    /\ Called("WaitForStop")
    /\ \E in \in Inputs(Fresh) : Becomes(WaitForStop(Fresh, in))

\* the simulation calls NotifySimulationEnd()
CallNotifySimulationEnd ==
    /\ Called("NotifySimulationEnd")
    /\ \E in \in Inputs(Fresh) : Becomes(NotifySimulationEnd(Fresh, in))

\* the simulation calls Notify(entity)
CallNotify ==
    /\ Called("Notify")
    /\ \E in \in Inputs(NotifyBind(Fresh)) : Becomes(Notify(Fresh, in))

\* the simulation calls one of the seven callback setters
\* (SetGetActionSpaceCb .. SetExecuteActionsCb) with a callback
CallSetCb ==
    \E slot \in Slots :
        /\ pc = "idle"
        /\ ~cb[slot]
        /\ Becomes([Fresh EXCEPT !.cb[slot] = TRUE])
        /\ UNCHANGED <<lastCall, calls, stack, rt, got, evars>>

\* the acknowledgement is there: Init resumes, and with it the
\* NotifyCurrentState that called it
InitAckReceived ==
    /\ pc = "InitRecv"
    /\ py2cpp.ready
    /\ LET s1 == InterfaceInitRecv(Fresh)
       IN  IF s1.pc = "idle" /\ s1.after = "NotifyCurrentState"
           THEN \E in \in Inputs(s1) :
                    Becomes(NotifyCurrentStateSend([s1 EXCEPT !.after = ""], in))
           ELSE Becomes([s1 EXCEPT !.after = ""])
    /\ UNCHANGED <<lastCall, calls, stack, rt, got, evars>>

\* the EnvAct is there: NotifyCurrentState resumes
EnvActReceived ==
    /\ pc = "StateRecv"
    /\ py2cpp.ready
    /\ \E in \in EnvReplies :
          LET s1 == NotifyCurrentStateRecv(Fresh, in)
          IN  Becomes([s1 EXCEPT !.endRoundDone =
                        @ \/ (s1.pc = "idle" /\ lastCall = "NotifySimulationEnd")])
    /\ UNCHANGED <<lastCall, calls, stack, rt, got, evars>>

\* the remote process reads the message and writes its reply
RemoteReply ==
    /\ cpp2py.ready
    /\ cpp2py' = [cpp2py EXCEPT !.ready = FALSE]
    /\ \E stop \in BOOLEAN :
          \/ /\ cpp2py.buffer.type = "SimInit"
             /\ \E done \in BOOLEAN :
                   py2cpp' = [buffer |-> [NoReply EXCEPT !.type = "SimInitAck",
                                                         !.done = done,
                                                         !.stopSimReq = stop],
                              ready |-> TRUE]
          \/ /\ cpp2py.buffer.type = "EnvState"
             /\ \E act \in ActData :
                   py2cpp' = [buffer |-> [NoReply EXCEPT !.type = "EnvAct",
                                                         !.actData = act,
                                                         !.stopSimReq = stop],
                              ready |-> TRUE]
    /\ UNCHANGED <<m_simEnd, m_stopEnvRequested, m_initSimMsgSent, cb, pc, after,
                   ops, nSimInit, invoked, actDataContainer, reply, gameOver,
                   lastCall, calls, stopSeen, simEndBeforeInit, endRoundDone, spaces,
                   stack, rt, got, evars>>

Init ==
    /\ Constructed
    /\ OneInterface
    /\ stack = <<>>
    /\ rt = NoConversion
    /\ got = NoRead

Next ==
    \/ CallInit
    \/ CallNotifyCurrentState
    \/ CallWaitForStop
    \/ CallNotifySimulationEnd
    \/ CallNotify
    \/ CallSetCb
    \/ InitAckReceived
    \/ EnvActReceived
    \/ RemoteReply

Spec == Init /\ [][Next]_vars

\* the interface with its callbacks set before the run: none, or all seven
FairInit ==
    /\ \E bound \in {{}, Slots} : ConstructedWith(bound)
    /\ OneInterface
    /\ stack = <<>>
    /\ rt = NoConversion
    /\ got = NoRead

\* a process in which no OpenGymInterface is constructed yet
IsolationInit ==
    /\ Constructed
    /\ msgInterface = NoMsgInterface
    /\ envs = NoEnvs
    /\ stack = <<>>
    /\ rt = NoConversion
    /\ got = NoRead

\* instances are constructed and make their exchanges
IsolationNext == NewInterface \/ InstanceExchange

IsolationSpec == IsolationInit /\ [][IsolationNext]_vars

\* the methods a simulation calls while it shuts down
ShutdownCalls ==
    {"Init", "NotifyCurrentState", "WaitForStop", "NotifySimulationEnd"}

\* a stop request was read: m_stopEnvRequested is set and the process is in
\* Simulator::Stop(), Simulator::Destroy(), std::exit(0).  The destroy
\* events, the DoDispose methods and the exit handlers of the simulation run
\* there, and one of them calls a method of the interface
ShutdownCall ==
    \E name \in ShutdownCalls :
        /\ pc = "exited"
        /\ m_stopEnvRequested
        /\ calls < MaxCalls
        /\ calls' = calls + 1
        /\ lastCall' = name
        /\ \E in \in Inputs(Fresh) :
              Becomes(CASE name = "Init" -> InterfaceInit(Fresh, in)
                        [] name = "NotifyCurrentState" ->
                              NotifyCurrentState(Fresh, in)
                        [] name = "WaitForStop" -> WaitForStop(Fresh, in)
                        [] name = "NotifySimulationEnd" ->
                              NotifySimulationEnd(Fresh, in))
        /\ UNCHANGED <<cvars, evars>>

\* the protocol with the calls made during the shutdown
StopNext ==
    \/ CallInit
    \/ CallNotifyCurrentState
    \/ CallWaitForStop
    \/ CallNotifySimulationEnd
    \/ CallNotify
    \/ InitAckReceived
    \/ EnvActReceived
    \/ RemoteReply
    \/ ShutdownCall

StopSpec == FairInit /\ [][StopNext]_vars

\* the protocol methods and the remote process, the callbacks being those
\* bound at the start or by Notify
FairNext ==
    \/ CallInit
    \/ CallNotifyCurrentState
    \/ CallWaitForStop
    \/ CallNotifySimulationEnd
    \/ CallNotify
    \/ InitAckReceived
    \/ EnvActReceived
    \/ RemoteReply

\* the remote process answers every message, and a method blocked in
\* CppRecvBegin resumes once the reply is there; the simulation is free to
\* make no further call
FairSpec ==
    /\ FairInit
    /\ [][FairNext]_vars
    /\ WF_vars(RemoteReply)
    /\ WF_vars(InitAckReceived)
    /\ WF_vars(EnvActReceived)

(***************************************************************************)
(* Properties of the protocol engine.                                      *)
(***************************************************************************)
\* the step is a method call by the simulation
CallStep == calls' # calls

\* the step is the call of one of the methods that run NotifyCurrentState
StateCallStep ==
    /\ CallStep
    /\ lastCall' \in {"NotifyCurrentState", "WaitForStop", "Notify",
                      "NotifySimulationEnd"}

\* the step resumes a blocked method: the reply is received
RecvStep == pc \in {"InitRecv", "StateRecv"} /\ Len(ops') > Len(ops)

\* the step sends an EnvState
EnvStateSent ==
    /\ Len(ops') > Len(ops)
    /\ ops'[Len(ops')] = "send"
    /\ cpp2py'.buffer.type = "EnvState"

\* the action executor callback was invoked by the last method step
ExecInvoked == \E i \in 1..Len(invoked) : invoked[i] = "m_actionCb"

\* the members and the transport
InterfaceState ==
    <<m_simEnd, m_stopEnvRequested, m_initSimMsgSent, cb, pc, after, cpp2py,
      py2cpp, ops, nSimInit>>

\* C2: handshake idempotence: at most one SimInit is ever sent, exactly one
\* once an Init has got past its send, and every Init call made after the
\* first one sends nothing, receives nothing and changes no state.
C2_HandshakeIdempotence ==
    /\ [](/\ nSimInit <= 1
          /\ (m_initSimMsgSent /\ pc # "aborted") => nSimInit = 1)
    /\ [][(CallStep /\ lastCall' = "Init" /\ m_initSimMsgSent)
            => (UNCHANGED InterfaceState /\ invoked' = <<>>)]_vars

\* a second Init call has returned: one SimInit, one acknowledgement
C2_Witness ==
    /\ calls = 2 /\ lastCall = "Init" /\ pc = "idle"
    /\ ~m_simEnd /\ nSimInit = 1 /\ ops = <<"send", "recv">>

\* C3: stop-request termination: once a SimInitAck or EnvAct carrying
\* stopSimReq has been received, the step that receives it and every later
\* step end without the action executor callback being invoked, and the
\* receiving step ends the round.
C3_StopRequestTermination ==
    [][stopSeen' => (/\ ~ExecInvoked'
                     /\ ~stopSeen => pc' \in {"exited", "idle"})]_vars

\* a stop request arrived with an action, with the executor bound
C3_Witness ==
    /\ stopSeen /\ cb["m_actionCb"] /\ pc = "exited"
    /\ py2cpp.buffer.type = "EnvAct"
    /\ py2cpp.buffer.actData.data_case = "kDiscrete"

\* C4: strict alternation: the transport operations of the simulation side
\* are send, recv, send, recv, ...; a request is outstanding exactly while
\* the simulation is blocked in a receive, and it is one request.
C4_StrictAlternation ==
    /\ \A i \in 1..Len(ops) : ops[i] = IF i % 2 = 1 THEN "send" ELSE "recv"
    /\ (Len(ops) % 2 = 1) <=> (pc \in {"InitRecv", "StateRecv"})
    /\ (cpp2py.ready \/ py2cpp.ready) <=> (pc \in {"InitRecv", "StateRecv"})
    /\ ~(cpp2py.ready /\ py2cpp.ready)

\* three complete rounds, the handshake and two steps
C4_Witness == Len(ops) = 6 /\ pc = "idle" /\ ~m_simEnd

\* C5 as stated: every received reply that carries stopSimReq, whatever the
\* sim-end flag, makes the interface record the stop request and exit.
C5_StopIsUnconditional ==
    [][(RecvStep /\ py2cpp.buffer.stopSimReq)
        => (m_stopEnvRequested' /\ pc' = "exited")]_vars

\* C5 amended: a received reply that carries stopSimReq makes the interface
\* record the stop request and exit when it is the SimInitAck, or the
\* EnvAct of an exchange made while the sim-end flag is not set; with the
\* sim-end flag set the EnvAct is received and ignored, NotifyCurrentState
\* returns and nothing is recorded.
C5_StopShutsDownUnlessSimEnd ==
    [][(RecvStep /\ py2cpp.buffer.stopSimReq)
        => IF pc = "InitRecv" \/ ~m_simEnd
           THEN m_stopEnvRequested' /\ pc' = "exited"
           ELSE ~m_stopEnvRequested' /\ pc' = "idle"]_vars

\* a stop request in an EnvAct ended the process
C5_Witness ==
    /\ pc = "exited" /\ m_stopEnvRequested
    /\ py2cpp.buffer.type = "EnvAct" /\ py2cpp.buffer.stopSimReq

\* C6: once the sim-end flag is set no step decodes an action or invokes
\* the action executor; a NotifyCurrentState made with the flag set still
\* sends its EnvState (unless the message is oversized) and, when the reply
\* is there, receives it and returns.
C6_NoActionAfterSimEnd ==
    [][m_simEnd' =>
        /\ ~ExecInvoked'
        /\ actDataContainer' = NotDecoded
        /\ (StateCallStep /\ m_initSimMsgSent) => pc' \in {"StateRecv", "aborted"}
        /\ (RecvStep /\ pc = "StateRecv")
              => (pc' = "idle" /\ ops' = Append(ops, "recv"))]_vars

\* the exchange of NotifySimulationEnd completed, its reply carried an
\* action and the executor is bound
C6_Witness ==
    /\ endRoundDone /\ cb["m_actionCb"] /\ pc = "idle"
    /\ py2cpp.buffer.actData.data_case = "kDiscrete"
    /\ ~py2cpp.buffer.stopSimReq

\* C7 as stated: NotifySimulationEnd on an initialised interface performs
\* one rendezvous, and once that rendezvous has completed no later call
\* sends or receives anything.
C7_FinalRendezvousIsLast ==
    [][/\ (CallStep /\ lastCall' = "NotifySimulationEnd" /\ m_initSimMsgSent)
            => pc' \in {"StateRecv", "aborted"}
       /\ endRoundDone => ops' = ops]_vars

\* C8: NotifySimulationEnd called before the handshake sends nothing and
\* only sets the sim-end flag; every EnvState sent afterwards, the first
\* one included, carries isGameOver with reason SimulationEnd.
C8_SimEndBeforeInit ==
    [][/\ (CallStep /\ lastCall' = "NotifySimulationEnd" /\ ~m_initSimMsgSent)
            => /\ m_simEnd'
               /\ UNCHANGED <<m_stopEnvRequested, m_initSimMsgSent, cb, pc,
                              after, cpp2py, py2cpp, ops, nSimInit>>
       /\ (simEndBeforeInit' /\ EnvStateSent)
            => /\ cpp2py'.buffer.isGameOver
               /\ cpp2py'.buffer.reason = "SimulationEnd"]_vars

\* the first EnvState after such a call is in the transport, and the
\* game-over callback is bound
C8_Witness ==
    /\ simEndBeforeInit /\ pc = "StateRecv" /\ Len(ops) = 3
    /\ cb["m_gameOverCb"]

\* C9 as stated: Notify binds all seven callback slots, and the SimInit sent
\* by a first Notify on a fresh interface describes both spaces.
C9_NotifyBindsAllSlots ==
    [][(CallStep /\ lastCall' = "Notify")
        => /\ \A slot \in Slots : cb'[slot]
           /\ (~m_initSimMsgSent /\ pc' = "InitRecv")
                => /\ cpp2py'.buffer.obsSpace # ""
                   /\ cpp2py'.buffer.actSpace # ""]_vars

\* C9 amended: Notify binds the five slots get-game-over, get-observation,
\* get-reward, get-extra-info and execute-actions, leaves the two space
\* slots as they were, and then performs one NotifyCurrentState; the SimInit
\* sent by a Notify describes a space only if that space's callback was
\* bound before, so on a fresh interface it describes neither space.
C9_NotifyBindsFiveSlots ==
    [][(CallStep /\ lastCall' = "Notify")
        => /\ \A slot \in NotifyBinds : cb'[slot]
           /\ \A slot \in Slots \ NotifyBinds : cb'[slot] = cb[slot]
           /\ pc' \in {"InitRecv", "StateRecv", "aborted"}
           /\ (pc' = "InitRecv") <=> (~m_initSimMsgSent /\ nSimInit' = 1)
           /\ (~m_initSimMsgSent /\ pc' = "InitRecv")
                => /\ cpp2py'.buffer.type = "SimInit"
                   /\ ~cb["m_observationSpaceCb"] => cpp2py'.buffer.obsSpace = ""
                   /\ ~cb["m_actionSpaceCb"] => cpp2py'.buffer.actSpace = ""]_vars

\* the first call on a fresh interface was Notify: its SimInit is empty
C9_Witness ==
    /\ calls = 1 /\ lastCall = "Notify" /\ pc = "InitRecv"
    /\ ~cb["m_observationSpaceCb"] /\ ~cb["m_actionSpaceCb"]
    /\ cb["m_obsCb"] /\ cpp2py.buffer = SimInitMsg

\* C10: capacity bound: nothing longer than MSG_BUFFER_SIZE is serialized
\* into the transport buffer or handed over with CppSendEnd; an oversized
\* message ends the process before the write, with no request outstanding,
\* and nothing happens after it.
C10_CapacityBound ==
    /\ [](/\ cpp2py.serialized <= MSG_BUFFER_SIZE
          /\ cpp2py.ready => cpp2py.size <= MSG_BUFFER_SIZE
          /\ (cpp2py.size > MSG_BUFFER_SIZE)
                => (pc = "aborted" /\ ~cpp2py.ready /\ ~py2cpp.ready
                    /\ Len(ops) % 2 = 0))
    /\ [][pc # "aborted"]_vars

\* an oversized EnvState ended the process: the size is set, the buffer
\* still holds the SimInit
C10_Witness ==
    /\ pc = "aborted" /\ cpp2py.size > MSG_BUFFER_SIZE
    /\ cpp2py.buffer.type = "SimInit" /\ nSimInit = 1

\* no callback slot is bound
NoneBound == \A slot \in Slots : ~cb[slot]

\* C11: an unbound callback slot never makes a round fail and yields a
\* neutral default: with no callback bound, a step invokes nothing and does
\* not end the process while sim-end is not set; the EnvState it sends has
\* no obsData, reward 0, isGameOver false and empty info; and when the reply
\* carries an action and no stop request, the action is decoded and
\* ExecuteActions returns false.
C11_UnboundSlotsAreNeutral ==
    [][(NoneBound' /\ ~m_simEnd') =>
        /\ invoked' = <<>>
        /\ pc' = "aborted"
              => (pc = "StateRecv"
                  /\ py2cpp.buffer.actData.data_case = "DATA_NOT_SET")
        /\ StateCallStep => pc' \in {"InitRecv", "StateRecv"}
        /\ EnvStateSent
              => /\ ~cpp2py'.buffer.hasObsData
                 /\ cpp2py'.buffer.obsData = DataContainerMsg
                 /\ cpp2py'.buffer.reward = 0
                 /\ ~cpp2py'.buffer.isGameOver
                 /\ cpp2py'.buffer.reason = ""
                 /\ cpp2py'.buffer.info = ""
        /\ (/\ RecvStep /\ pc = "StateRecv"
            /\ ~py2cpp.buffer.stopSimReq
            /\ py2cpp.buffer.actData.data_case # "DATA_NOT_SET")
              => /\ pc' = "idle"
                 /\ actDataContainer'.kind = "Discrete"
                 /\ reply' = FALSE]_vars

\* a step with no callback bound has completed: the reply carried an action
\* and no stop request, and ExecuteActions returned false
C11_Witness ==
    /\ NoneBound /\ ~m_simEnd /\ pc = "idle" /\ Len(ops) = 4
    /\ py2cpp.buffer.type = "EnvAct" /\ ~py2cpp.buffer.stopSimReq
    /\ actDataContainer.kind = "Discrete" /\ reply = FALSE

(***************************************************************************)
(* Properties of the container reads.                                      *)
(***************************************************************************)
\* C12: absent-safety: a read of a Box or Tuple at an index at or past the
\* current length, or of a Dict at a key never added, returns the sentinel
\* (0 for Box, the null container for Tuple and Dict); a read at an index
\* below the length or at a present key returns the stored element; no read
\* changes the container.
C12_AbsentSafety ==
    /\ [](got.op = "GetValue"
            => got.value = IF got.idx >= Len(Top.m_data) THEN 0
                           ELSE Top.m_data[got.idx + 1])
    /\ [](got.op = "TupleGet"
            => got.ptr = IF got.idx >= Len(Top.m_tuple) THEN NullPtr
                         ELSE Top.m_tuple[got.idx + 1])
    /\ [](got.op = "DictGet"
            => /\ (\A i \in 1..Len(Top.m_dict) : Top.m_dict[i].key # got.key)
                    => got.ptr = NullPtr
               /\ \A i \in 1..Len(Top.m_dict) :
                    Top.m_dict[i].key = got.key => got.ptr = Top.m_dict[i].val)
    /\ [][got'.op # "none" => stack' = stack]_vars

\* a Box holding <<0, 1>> was read at index 2, its length
C12_Witness ==
    /\ got.op = "GetValue" /\ Top.m_data = <<0, 1>>
    /\ got.idx = 2 /\ got.value = 0

\* the value a Dict holds at a key it has
ValueAt(c, key) == Structure(DictGet(c, key))

\* the keys of a Dict
KeySet(c) == {c.m_dict[i].key : i \in 1..Len(c.m_dict)}

\* C13: ordering preservation: for every Tuple t, decode(encode(t)) has the
\* length of t and its element i equals element i of t for all i; for every
\* Dict d, whatever the order of its Add calls, decode(encode(d)) has the
\* key set of d and each key maps to the same value.
C13_OrderingPreservation ==
    (rt.done /\ ~HasNull(rt.orig)) =>
        /\ rt.orig.kind = "Tuple"
              => /\ rt.decoded.kind = "Tuple"
                 /\ Len(rt.decoded.m_tuple) = Len(rt.orig.m_tuple)
                 /\ \A i \in 1..Len(rt.orig.m_tuple) :
                       Structure(rt.decoded.m_tuple[i])
                         = Structure(rt.orig.m_tuple[i])
        /\ rt.orig.kind = "Dict"
              => /\ rt.decoded.kind = "Dict"
                 /\ KeySet(rt.decoded) = KeySet(rt.orig)
                 /\ \A key \in KeySet(rt.orig) :
                       ValueAt(rt.decoded, key) = ValueAt(rt.orig, key)

RECURSIVE Malformed(_)
\* the message, or an element nested in its Tuple or Dict, has a
\* discriminant that is none of the four variants, or is a Box with a dtype
\* that is none of the four element kinds
Malformed(msg) ==
    \/ msg.data_case \notin {"kDiscrete", "kBox", "kTuple", "kDict"}
    \/ msg.data_case = "kBox" /\ msg.dtype \notin {"INT", "UINT", "FLOAT", "DOUBLE"}
    \/ /\ msg.data_case \in {"kTuple", "kDict"}
       /\ \E i \in 1..Len(msg.element) : Malformed(msg.element[i])

\* C14: decoding is fatal on an unknown shape: CreateFromDataContainerPbMsg
\* ends the process, and returns no container (null or partial), when the
\* message's discriminant is unset or unknown or a Box message's dtype is
\* none of Int, UInt, Float, Double, at the top level or in any nested Tuple
\* or Dict element.
C14_DecodeFatalOnUnknown ==
    (got.op = "Decode" /\ Malformed(got.msg)) => got.ptr = AbortPtr

\* a Tuple message whose second element is a Box of unknown dtype was decoded
C14_Witness ==
    /\ got.op = "Decode" /\ got.msg.data_case = "kTuple"
    /\ Len(got.msg.element) = 2
    /\ got.msg.element[1].data_case = "kDiscrete"
    /\ got.msg.element[2].data_case = "kBox"
    /\ got.msg.element[2].dtype \in UnknownDtypes
    /\ got.ptr = AbortPtr

(***************************************************************************)
(* Properties of Print.                                                    *)
(***************************************************************************)
RECURSIVE Join(_)
\* the texts of a sequence with ", " between them
Join(texts) ==
    IF texts = <<>> THEN ""
    ELSE IF Len(texts) = 1 THEN texts[1]
    ELSE texts[1] \o ", " \o Join(Tail(texts))

RECURSIVE Rendering(_)
\* the text of a container: the digits of a Discrete, [x, y, ...] for a Box,
\* Tuple(a, b, ...) in element order, Dict(k1=v1, k2=v2, ...) with the keys
\* it has in ascending order
Rendering(c) ==
    CASE c.kind = "Discrete" -> ToString(c.m_value)
      [] c.kind = "Box" ->
            "[" \o Join([i \in 1..Len(c.m_data) |-> ToStdString(c.T, c.m_data[i])])
                \o "]"
      [] c.kind = "Tuple" ->
            "Tuple(" \o Join([i \in 1..Len(c.m_tuple) |-> Rendering(c.m_tuple[i])])
                     \o ")"
      [] c.kind = "Dict" ->
            LET has == SelectSeq(KeyOrder, LAMBDA k : k \in KeySet(c))
            IN  "Dict(" \o Join([i \in 1..Len(has) |->
                                    has[i] \o "=" \o Rendering(DictGet(c, has[i]))])
                        \o ")"

\* the Dicts made by adding the entries of c in every order
Reorderings(c) ==
    {AddAllToDict(OpenGymDictContainer, [i \in 1..Len(c.m_dict) |-> c.m_dict[p[i]]]) :
        p \in Permutations(1..Len(c.m_dict))}

\* C15: format is deterministic in key order: Print writes a Dict as
\* Dict(k1=v1, k2=v2, ...) with the keys in ascending order and ", " only
\* between entries, and writes the same text for the Dicts holding the same
\* entries added in any other order; a Tuple is written as Tuple(a, b, ...)
\* in element order and a Box as [x, y, ...] in data order.
C15_FormatDeterministic ==
    (got.op = "Print" /\ ~HasNull(Top)) =>
        /\ got.os.ok
        /\ got.os.text = Rendering(Top)
        /\ Top.kind = "Dict"
              => \A d \in Reorderings(Top) : ContainerPrint(d, EmptyStream) = got.os

\* a Dict whose entries were added as "pos" and then "n" was printed
C15_Witness ==
    /\ got.op = "Print" /\ Top.kind = "Dict"
    /\ got.os.text = "Dict(n=1, pos=[0])"

\* C16: format never fails: Print completes and yields a rendering for every
\* container that can be built through the public operations, a Tuple or
\* Dict to which a null child was added and the empty Box, Tuple and Dict
\* included.
C16_FormatNeverFails == got.op = "Print" => got.os.ok

(***************************************************************************)
(* Progress of the protocol engine.                                        *)
(***************************************************************************)
\* a method is waiting in CppRecvBegin
Blocked == pc \in {"InitRecv", "StateRecv"}

\* C17: no deadlock: when the remote process answers every message with one
\* reply, every call of Init, NotifyCurrentState and NotifySimulationEnd
\* returns or ends the process; and a method waits in a receive only after
\* it has completed a send whose reply it has not yet received.
C17_NoDeadlock ==
    /\ [](Blocked => /\ ops # <<>> /\ ops[Len(ops)] = "send"
                      /\ cpp2py.ready # py2cpp.ready)
    /\ Blocked ~> (pc \in {"idle", "exited", "aborted"})

\* Init, NotifyCurrentState and NotifySimulationEnd were called and each
\* has returned after its exchange
C17_Witness ==
    /\ pc = "idle" /\ calls = 3 /\ Len(ops) = 6
    /\ lastCall = "NotifySimulationEnd" /\ nSimInit = 1

(***************************************************************************)
(* Properties of several instances in one process.                         *)
(***************************************************************************)
\* C18: environment isolation: with two OpenGymInterface instances of
\* different environment ids in one process, each one exchanges its
\* messages over the channel set named with its own id, whatever is
\* constructed or used besides it.
C18_EnvironmentIsolation ==
    \A i \in Insts : envs[i].via # 0 => envs[i].via = envs[i].m_envId

(***************************************************************************)
(* The spaces in the handshake.                                            *)
(***************************************************************************)
\* the step is the first Init call on the interface
FirstInitStep == CallStep /\ lastCall' = "Init" /\ ~m_initSimMsgSent

\* the SimInit in the transport describes exactly the spaces the entity has
SimInitDescribesSpaces ==
    /\ cpp2py'.buffer.type = "SimInit"
    /\ (cpp2py'.buffer.obsSpace # "") <=> (spaces'.obs # NullSpace)
    /\ (cpp2py'.buffer.actSpace # "") <=> (spaces'.act # NullSpace)

\* C19 as stated: for each of the four combinations of observation space
\* present or absent and action space present or absent, the first Init
\* sends exactly one SimInit whose obsSpace field is set iff the observation
\* space is present and whose actSpace field is set iff the action space is
\* present, and then waits for the acknowledgement.
C19_AbsentSpacesAtInit ==
    [][FirstInitStep
        => /\ pc' = "InitRecv" /\ nSimInit' = 1 /\ ops' = <<"send">>
           /\ cpp2py'.ready
           /\ SimInitDescribesSpaces]_vars

\* C19 amended: the same, unless the encoded SimInit is larger than the
\* transport capacity: then the first Init ends the process and sends
\* nothing.  A SimInit describing no space always fits.
C19_AbsentSpacesUnlessOversized ==
    [][FirstInitStep
        => /\ (spaces'.obs = NullSpace /\ spaces'.act = NullSpace)
                => cpp2py'.size <= MSG_BUFFER_SIZE
           /\ IF cpp2py'.size <= MSG_BUFFER_SIZE
              THEN /\ pc' = "InitRecv" /\ nSimInit' = 1 /\ ops' = <<"send">>
                   /\ cpp2py'.ready
                   /\ SimInitDescribesSpaces
              ELSE /\ pc' = "aborted" /\ nSimInit' = 0 /\ ops' = <<>>
                   /\ ~cpp2py'.ready]_vars

\* the first Init, with both space callbacks bound, found an action space
\* and no observation space, and waits for the acknowledgement
C19_Witness ==
    /\ calls = 1 /\ lastCall = "Init" /\ pc = "InitRecv"
    /\ cb["m_observationSpaceCb"] /\ cb["m_actionSpaceCb"]
    /\ spaces.obs = NullSpace /\ spaces.act # NullSpace
    /\ cpp2py.buffer.obsSpace = "" /\ cpp2py.buffer.actSpace # ""

(***************************************************************************)
(* Properties of the Box element kinds.                                    *)
(***************************************************************************)
\* the dtype tag of each supported element kind
TagOf(name) ==
    CASE name = "int32_t" -> "INT"
      [] name = "uint32_t" -> "UINT"
      [] name = "float" -> "FLOAT"
      [] name = "double" -> "DOUBLE"

\* the four typed arrays of a Box message, by tag
TypedArrays(msg) ==
    [INT |-> msg.intData, UINT |-> msg.uintData, FLOAT |-> msg.floatData,
     DOUBLE |-> msg.doubleData]

NamedKinds ==
    {"int8_t", "int16_t", "int32_t", "int64_t", "uint8_t", "uint16_t",
     "uint32_t", "uint64_t", "float", "double"}

C21_GameOverEncoding ==
    pc = "StateRecv"
      => LET envStateMsg == cpp2py.buffer
             returnedTrue == gameOver = "true"
         IN  /\ envStateMsg.type = "EnvState"
             /\ envStateMsg.isGameOver <=> (returnedTrue \/ m_simEnd)
             /\ (envStateMsg.reason = "SimulationEnd") <=> m_simEnd
             /\ (envStateMsg.reason = "GameOver")
                   <=> (returnedTrue /\ ~m_simEnd)
             /\ ~envStateMsg.isGameOver => envStateMsg.reason = ""

\* an EnvState was sent after NotifySimulationEnd with a game-over callback
\* that returned true as well
C21_Witness ==
    /\ pc = "StateRecv" /\ m_simEnd /\ gameOver = "true"
    /\ cpp2py.buffer.reason = "SimulationEnd"

(***************************************************************************)
(* Properties of the EnvAct reply.                                         *)
(***************************************************************************)
\* the reply waiting in the transport is an EnvAct with neither a stop
\* request nor action data
EmptyEnvAct ==
    /\ py2cpp.ready
    /\ py2cpp.buffer.type = "EnvAct"
    /\ ~py2cpp.buffer.stopSimReq
    /\ py2cpp.buffer.actData = DataContainerMsg

\* C22: an EnvAct reply that carries neither a stop request nor any action
\* data is accepted when sim-end is not set: the NotifyCurrentState that
\* receives it completes the round and returns, without a fatal abort.
C22_EmptyActionAccepted ==
    [][(RecvStep /\ pc = "StateRecv" /\ EmptyEnvAct /\ ~m_simEnd)
         => pc' = "idle"]_vars

(***************************************************************************)
(* Properties of the order of the messages.                                *)
(***************************************************************************)
\* the step makes the first send of the simulation side
FirstSend == ops = <<>> /\ ops' # <<>>

\* C23: handshake precedes every step: the first message the simulation
\* side sends is the SimInit; no EnvState is sent before the SimInit has been
\* sent and its acknowledgement received; NotifyCurrentState on an
\* uninitialized interface performs the Init handshake first, and
\* NotifySimulationEnd on an uninitialized interface sends nothing.
C23_HandshakePrecedesSteps ==
    [][/\ FirstSend => (ops' = <<"send">> /\ cpp2py'.buffer.type = "SimInit")
       /\ EnvStateSent
            => /\ nSimInit = 1
               /\ Len(ops') >= 3 /\ ops'[1] = "send" /\ ops'[2] = "recv"
       /\ (StateCallStep /\ lastCall' # "NotifySimulationEnd"
              /\ ~m_initSimMsgSent)
            => \/ pc' = "aborted"
               \/ /\ pc' = "InitRecv" /\ nSimInit' = 1
                  /\ cpp2py'.buffer.type = "SimInit"
       /\ (CallStep /\ lastCall' = "NotifySimulationEnd" /\ ~m_initSimMsgSent)
            => (ops' = ops /\ cpp2py' = cpp2py /\ pc' = "idle")]_vars

\* the first call was NotifyCurrentState on an uninitialized interface: the
\* handshake was made, and then the EnvState was sent
C23_Witness ==
    /\ calls = 1 /\ lastCall = "NotifyCurrentState"
    /\ nSimInit = 1 /\ ops = <<"send", "recv", "send">>
    /\ pc = "StateRecv" /\ cpp2py.buffer.type = "EnvState"

(***************************************************************************)
(* Properties of the three flags.                                          *)
(***************************************************************************)
\* the step belongs to the method: it is its call, or the resumption of the
\* method blocked in a receive
StepOf(names) ==
    \/ CallStep /\ lastCall' \in names
    \/ RecvStep /\ lastCall \in names

\* C24: the three protocol flags are one-way: once the init-sent flag, the
\* sim-end flag or the stop-requested flag is true it stays true under every
\* later operation; Init and NotifyCurrentState never change sim-end, and
\* NotifySimulationEnd never clears init-sent or stop-requested.
C24_FlagsAreOneWay ==
    [][/\ m_initSimMsgSent => m_initSimMsgSent'
       /\ m_simEnd => m_simEnd'
       /\ m_stopEnvRequested => m_stopEnvRequested'
       /\ StepOf({"Init", "NotifyCurrentState"}) => m_simEnd' = m_simEnd
       /\ StepOf({"NotifySimulationEnd"})
            => /\ m_initSimMsgSent => m_initSimMsgSent'
               /\ m_stopEnvRequested => m_stopEnvRequested']_vars

\* NotifyCurrentState has made its handshake and a complete round after
\* NotifySimulationEnd had set sim-end: the two flags are still set
C24_Witness ==
    /\ m_simEnd /\ m_initSimMsgSent /\ simEndBeforeInit
    /\ lastCall = "NotifyCurrentState" /\ pc = "idle" /\ Len(ops) = 4

(***************************************************************************)
(* Properties of the interface after a stop request.                       *)
(***************************************************************************)
\* the callbacks the claim names: observation, reward, action executor
StepCallbacks == {"m_obsCb", "m_rewardCb", "m_actionCb"}

\* C25: stop is absorbing: in every state where the stop-requested flag is
\* set, a call of NotifyCurrentState, WaitForStop, NotifySimulationEnd or
\* Init sends no message, performs no receive and does not invoke the
\* observation, reward or action executor callbacks.
C25_StopIsAbsorbing ==
    [][(CallStep /\ m_stopEnvRequested /\ lastCall' \in ShutdownCalls)
         => /\ ops' = ops
            /\ cpp2py' = cpp2py
            /\ py2cpp' = py2cpp
            /\ \A i \in 1..Len(invoked') : invoked'[i] \notin StepCallbacks]_vars

\* NotifySimulationEnd was called with the stop-requested flag set and all
\* callbacks bound, after the stop request had arrived in an EnvAct
C25_Witness ==
    /\ m_stopEnvRequested /\ lastCall = "NotifySimulationEnd" /\ m_simEnd
    /\ cb["m_obsCb"] /\ cb["m_actionCb"]
    /\ ops = <<"send", "recv", "send", "recv">>

(***************************************************************************)
(* Properties of the Dict keys.                                            *)
(***************************************************************************)
\* the keys of the entry sequence are pairwise different
UniqueKeys(m) ==
    \A i, j \in 1..Len(m) : m[i].key = m[j].key => i = j

\* the first element of the message with that name
FirstNamed(msg, name) ==
    msg.element[CHOOSE i \in 1..Len(msg.element) :
                    /\ msg.element[i].name = name
                    /\ \A j \in 1..(i - 1) : msg.element[j].name # name]

\* C26: Dict keys stay unique with first-write-wins: Dict Add with a key
\* that is already present leaves the mapping unchanged (the earlier value is
\* kept, the number of entries does not grow) and still returns true; the
\* same holds when a decoded Dict message has two elements with one name.
C26_FirstWriteWins ==
    /\ [][got'.op = "DictAdd"
            => /\ got'.value = 1
               /\ UniqueKeys(Top'.m_dict)
               /\ DictHas(Top.m_dict, got'.key) => Top' = Top
               /\ ~DictHas(Top.m_dict, got'.key)
                    => /\ Len(Top'.m_dict) = Len(Top.m_dict) + 1
                       /\ DictGet(Top', got'.key) = got'.ptr
                       /\ \A k \in KeySet(Top) : DictGet(Top', k) = DictGet(Top, k)]_vars
    /\ [](got.op = "DecodeDict"
            => /\ got.ptr.kind = "Dict"
               /\ UniqueKeys(got.ptr.m_dict)
               /\ KeySet(got.ptr)
                    = {got.msg.element[i].name : i \in 1..Len(got.msg.element)}
               /\ \A k \in KeySet(got.ptr) :
                     DictGet(got.ptr, k)
                       = CreateFromDataContainerPbMsg(FirstNamed(got.msg, k)))

\* a message with the name "n" twice, first with the value 1 and then with
\* the value 0, was decoded to a Dict with the one entry n = 1
C26_Witness ==
    /\ got.op = "DecodeDict" /\ Len(got.msg.element) = 2
    /\ got.msg.element[1].name = "n" /\ got.msg.element[2].name = "n"
    /\ got.msg.element[1].data = 1 /\ got.msg.element[2].data = 0
    /\ Len(got.ptr.m_dict) = 1
    /\ got.ptr.m_dict[1].val.m_value = 1

====
